---- MODULE Spec2Model ----
(***************************************************************************)
(* Model of app.py: the Flask handler handle_project_request, the Round-1  *)
(* workflow (process_build_request, create_and_deploy_repo), the Round-2   *)
(* workflow (process_revise_request, update_repo_files), the deployment    *)
(* poll wait_for_github_pages_deployment and notify_evaluator.             *)
(*                                                                         *)
(* Text is a sequence of tokens.  The tokens that the code's string        *)
(* operations look at are kept apart: the section marker "--- FILE: ",     *)
(* the line break, the blank, the separator "---", the two code fences,    *)
(* the file names and ordinary body text.                                  *)
(***************************************************************************)
EXTENDS Integers, Sequences, FiniteSets, TLC

VARIABLES
    MY_APP_SECRET,          \* app.py:13, the configured secret
    pc,                     \* position of the worker that serves the request
    data,                   \* request.json of the request being served
    http_status,            \* status of the last HTTP response (0: none yet)
    nreq,                   \* requests received so far
    repo,                   \* the repository llm-app-{task} on the host
    generated_code,         \* process_build_request: generated_code
    github_details,         \* process_build_request: github_details
    nfile,                  \* create_and_deploy_repo: files created so far
    repo_details,           \* process_revise_request: repo_details
    files_raw,              \* update_repo_files: blocks not yet iterated
    original_file,          \* update_repo_files: original_file
    new_commit_sha,         \* update_repo_files: new_commit_sha
    commit_sha,             \* process_revise_request: commit_sha
    elapsed_time,           \* wait_for_github_pages_deployment: elapsed_time
    deployment_successful,  \* value returned by the deployment wait
    w_exit,                 \* the return statement the deployment wait left by
    w_polls,                \* history: get_workflow_runs calls of this run
    w_clock,                \* history: time slept inside the deployment wait
    w_first_completed,      \* history: conclusion of the first completed run seen
    w_completed_sha,        \* history: commit of the first completed run seen
    w_late_polls,           \* history: polls made after a completed run was seen
    w_error,                \* history: a poll raised
    w_odd_seen,             \* history: a run not completed, yet with a success
                            \* conclusion, was seen
    i,                      \* notify_evaluator: loop index
    delay,                  \* notify_evaluator: delay
    payload,                \* notify_evaluator: payload
    n_result,               \* notify_evaluator: "none", "true" or "false"
    n_attempts,             \* history: requests.post calls of this run
    n_log,                  \* history: the posts (1 when the answer was 200,
                            \* else 0) and the sleeps (with the delay)
    gen_out,                \* history: outcome of the generation call
    fetch_out,              \* history: outcome of get_existing_repo_details
    pub_out,                \* history: outcome of the publish / update stage
    pub_ops,                \* history: repository writes attempted by this run
    resp_known,             \* history: the response held a recognized file
    resp_sections,          \* history: the sections of the response, when it
                            \* is made of sections in the requested form only
    stale_ops,              \* history: the update_file call of this run that
                            \* carried a version token no longer current (0: none)
    last_submit,            \* history: what became of the last update_file call
    head_reads,             \* history: get_branch calls of this run
    o_pc,                   \* a second run of update_repo_files: its position
    o_files_raw,            \* the second run: blocks not yet iterated
    o_original_file,        \* the second run: original_file
    o_new_commit_sha,       \* the second run: new_commit_sha
    o_stale                 \* history: the second run submitted a version token
                            \* no longer current

hvars == <<MY_APP_SECRET, pc, data, http_status, nreq>>
evars == <<repo>>
bvars == <<generated_code, github_details, nfile>>
rvars == <<repo_details, files_raw, original_file, new_commit_sha,
           commit_sha>>
wvars == <<elapsed_time, deployment_successful, w_exit, w_polls, w_clock,
           w_first_completed, w_completed_sha, w_late_polls, w_error, w_odd_seen>>
nvars == <<i, delay, payload, n_result, n_attempts, n_log>>
gvars == <<gen_out, fetch_out, pub_out, pub_ops, resp_known, resp_sections,
           stale_ops, last_submit, head_reads>>
ovars == <<o_pc, o_files_raw, o_original_file, o_new_commit_sha, o_stale>>
vars == <<hvars, evars, bvars, rvars, wvars, nvars, gvars, ovars>>

----------------------------------------------------------------------------
(* Bounds of the model *)

MaxRequests == 2
MaxChunks == 2

(* Constants of the program *)

warmup_seconds == 5
timeout_seconds == 300
poll_interval_seconds == 10
max_retries == 5
initial_delay == 1
HTTP_OK == 200
HTTP_CREATED == 201
HTTP_FORBIDDEN == 403

----------------------------------------------------------------------------
(* Text *)

MARKER == "--- FILE: "
NL == "\n"
SP == " "
DASH == "---"
FENCE_HTML == "[fence html]"
FENCE == "[fence]"
INDEX == "index.html"
README == "README.md"
LICENSE == "LICENSE"
STRAY == "notes.txt"
BODY == "x"

KnownFiles == {INDEX, README}
RepoFiles == {LICENSE, README, INDEX}

IsSpace(t) == t \in {NL, SP}

\* one element of the set S of numbers: the least
Least(S) == CHOOSE n \in S : \A m \in S : n <= m

\* str.strip()
RECURSIVE LStrip(_)
LStrip(s) ==
    IF s # <<>> /\ IsSpace(Head(s)) THEN LStrip(Tail(s)) ELSE s

RECURSIVE RStrip(_)
RStrip(s) ==
    IF s # <<>> /\ IsSpace(s[Len(s)]) THEN RStrip(SubSeq(s, 1, Len(s) - 1)) ELSE s

Strip(s) == RStrip(LStrip(s))

\* str.replace(FENCE_HTML, "").replace(FENCE, "")
RemoveFences(s) == SelectSeq(s, LAMBDA t : t \notin {FENCE_HTML, FENCE})

Positions(s, t) == {k \in 1..Len(s) : s[k] = t}

\* str.split(sep): every piece, the empty ones too
RECURSIVE Split(_, _)
Split(s, sep) ==
    IF Positions(s, sep) = {}
    THEN <<s>>
    ELSE LET k == Least(Positions(s, sep))
         IN  <<SubSeq(s, 1, k - 1)>> \o Split(SubSeq(s, k + 1, Len(s)), sep)

\* str.split(sep, 1): at most two pieces
SplitOnce(s, sep) ==
    IF Positions(s, sep) = {}
    THEN <<s>>
    ELSE LET k == Least(Positions(s, sep))
         IN  <<SubSeq(s, 1, k - 1), SubSeq(s, k + 1, Len(s))>>

\* app.py:245
\* faulty variant: the response is cut at the first marker only
FileBlocksMutOnce(text) == SplitOnce(text, MARKER)

FileBlocks(text) == Split(text, MARKER)

\* app.py:249
IsBlank(file_raw) == Strip(file_raw) = <<>>

\* app.py:254-255
IsMalformed(file_raw) == Len(SplitOnce(file_raw, NL)) < 2

\* app.py:259
FileNameOf(file_raw) == Strip(Split(SplitOnce(file_raw, NL)[1], DASH)[1])

\* app.py:260
ContentOf(file_raw) == RemoveFences(Strip(SplitOnce(file_raw, NL)[2]))

\* app.py:262
\* faulty variant: README.md is not in the list
IsKnownNameMutIndexOnly(filename) == filename = <<INDEX>>

IsKnownName(filename) == filename \in {<<f>> : f \in KnownFiles}

\* app.py:48
CleanGenerated(text) == RemoveFences(Strip(text))

----------------------------------------------------------------------------
(* Inputs *)

Secrets == {"none", "s1", "s2"}

\* request.json: body is FALSE for an absent or empty JSON document;
\* secret "none" is a document without the key
Requests ==
    {[body |-> FALSE, secret |-> "none", round |-> 0]}
        \cup [body : {TRUE}, secret : Secrets, round : {1, 2, 3}]

\* response.text of generate_app_code
BuildTexts ==
    { <<>>, <<SP, NL>>, <<FENCE>>, <<BODY>>,
      <<FENCE_HTML, NL, BODY, NL, FENCE>> }

\* app.py:230-236: sections in the form the prompt asks for, the one of
\* index.html with its body inside a code fence
IndexSection == <<MARKER, INDEX, SP, DASH, NL, FENCE_HTML, BODY, FENCE, NL>>
ReadmeSection == <<MARKER, README, SP, DASH, NL, BODY, BODY>>

\* a section in the same form for a file nobody asked for
StraySection == <<MARKER, STRAY, SP, DASH, NL, BODY>>

Sections == {IndexSection, ReadmeSection, StraySection}

\* pieces of response.text of generate_updated_code
Chunks ==
    { IndexSection, ReadmeSection, StraySection,
      <<MARKER, README, NL>>,
      <<MARKER, INDEX>>,
      <<SP, NL>>,
      <<BODY, NL>> }

ChunkSeqs == UNION {[1..n -> Chunks] : n \in 0..MaxChunks}

RECURSIVE Concat(_)
Concat(ss) == IF ss = <<>> THEN <<>> ELSE Head(ss) \o Concat(Tail(ss))

ReviseTexts == {Concat(cs) : cs \in ChunkSeqs}

\* outcome of a call to the repository host or to the generator
Outcomes == {"ok", "raise"}

\* what requests.post does: a response with a status, or a RequestException
PostOutcomes ==
    [raised : {FALSE}, status_code : {HTTP_OK, HTTP_CREATED, 500}]
        \cup {[raised |-> TRUE, status_code |-> 0]}

----------------------------------------------------------------------------
(* Values *)

NoSha == 0
NoDetails == [ok |-> FALSE, commit_sha |-> NoSha]
NoFile == [present |-> FALSE, content |-> <<>>, sha |-> NoSha]
NoRepo == [exists |-> FALSE, pages |-> FALSE, head |-> NoSha,
           files |-> [f \in RepoFiles |-> NoFile]]
NoRun == [status |-> "none", conclusion |-> "none", sha |-> NoSha]
NoPayload == [round |-> 0, commit_sha |-> NoSha]
NoOriginal == [path |-> "none", sha |-> NoSha]

LICENSE_TEXT == <<"MIT License">>
README_TEXT == <<"# llm-app">>

\* app.py:84-87, in order
SeedFiles == <<LICENSE, README, INDEX>>

\* a run of the host, for the commit sha: a completed run has a conclusion;
\* the model lets a run that is not completed carry any conclusion
RunValues(shas) ==
    [status : {"completed"}, conclusion : {"success", "failure"}, sha : shas]
        \cup [status : {"in_progress"},
              conclusion : {"none", "success", "failure"}, sha : shas]

----------------------------------------------------------------------------
(* Start *)

Init ==
    /\ MY_APP_SECRET \in {"none", "s1"}
    /\ pc = "idle"
    /\ data = [body |-> FALSE, secret |-> "none", round |-> 0]
    /\ http_status = 0
    /\ nreq = 0
    /\ repo = NoRepo
    /\ generated_code = <<>>
    /\ github_details = NoDetails
    /\ nfile = 0
    /\ repo_details = FALSE
    /\ files_raw = <<>>
    /\ original_file = NoOriginal
    /\ new_commit_sha = NoSha
    /\ commit_sha = NoSha
    /\ elapsed_time = 0
    /\ deployment_successful = FALSE
    /\ w_exit = "none"
    /\ w_polls = 0
    /\ w_clock = 0
    /\ w_first_completed = "unseen"
    /\ w_completed_sha = NoSha
    /\ w_late_polls = 0
    /\ w_error = FALSE
    /\ w_odd_seen = FALSE
    /\ i = 0
    /\ delay = initial_delay
    /\ payload = NoPayload
    /\ n_result = "none"
    /\ n_attempts = 0
    /\ n_log = <<>>
    /\ gen_out = "none"
    /\ fetch_out = "none"
    /\ pub_out = "none"
    /\ pub_ops = 0
    /\ resp_known = FALSE
    /\ resp_sections = <<>>
    /\ stale_ops = 0
    /\ last_submit = "none"
    /\ head_reads = 0
    /\ o_pc = "none"
    /\ o_files_raw = <<>>
    /\ o_original_file = NoOriginal
    /\ o_new_commit_sha = NoSha
    /\ o_stale = FALSE

\* a new request starts with fresh locals and a fresh history
FreshRun ==
    /\ generated_code' = <<>>
    /\ github_details' = NoDetails
    /\ nfile' = 0
    /\ repo_details' = FALSE
    /\ files_raw' = <<>>
    /\ original_file' = NoOriginal
    /\ new_commit_sha' = NoSha
    /\ commit_sha' = NoSha
    /\ elapsed_time' = 0
    /\ deployment_successful' = FALSE
    /\ w_exit' = "none"
    /\ w_polls' = 0
    /\ w_clock' = 0
    /\ w_first_completed' = "unseen"
    /\ w_completed_sha' = NoSha
    /\ w_late_polls' = 0
    /\ w_error' = FALSE
    /\ w_odd_seen' = FALSE
    /\ i' = 0
    /\ delay' = initial_delay
    /\ payload' = NoPayload
    /\ n_result' = "none"
    /\ n_attempts' = 0
    /\ n_log' = <<>>
    /\ gen_out' = "none"
    /\ fetch_out' = "none"
    /\ pub_out' = "none"
    /\ pub_ops' = 0
    /\ resp_known' = FALSE
    /\ resp_sections' = <<>>
    /\ stale_ops' = 0
    /\ last_submit' = "none"
    /\ head_reads' = 0

----------------------------------------------------------------------------
(* handle_project_request, app.py:331-343 *)

\* app.py:335
\* faulty variant: the secret is not checked
RejectedMutNever(d, secret) == FALSE

Rejected(d, secret) == ~d.body \/ d.secret # secret

\* app.py:338-341
Dispatch(d) ==
    IF d.round = 2 THEN "revise" ELSE IF d.round = 1 THEN "build" ELSE "respond"

\* app.py:334-336
HandleReject ==
    /\ pc = "idle"
    /\ nreq < MaxRequests
    /\ \E d \in Requests :
        /\ Rejected(d, MY_APP_SECRET)
        /\ data' = d
    /\ http_status' = HTTP_FORBIDDEN
    /\ nreq' = nreq + 1
    /\ pc' = "idle"
    /\ FreshRun
    /\ UNCHANGED <<MY_APP_SECRET, evars>>
    /\ UNCHANGED ovars

\* app.py:334-341
HandleAccept ==
    /\ pc = "idle"
    /\ nreq < MaxRequests
    /\ \E d \in Requests :
        /\ ~Rejected(d, MY_APP_SECRET)
        /\ data' = d
        /\ pc' = Dispatch(d)
    /\ http_status' = 0
    /\ nreq' = nreq + 1
    /\ FreshRun
    /\ UNCHANGED <<MY_APP_SECRET, evars>>
    /\ UNCHANGED ovars

\* app.py:343
Respond ==
    /\ pc = "respond"
    /\ http_status' = HTTP_OK
    /\ pc' = "idle"
    /\ UNCHANGED <<MY_APP_SECRET, data, nreq, evars, bvars, rvars, wvars, nvars, gvars>>
    /\ UNCHANGED ovars

----------------------------------------------------------------------------
(* process_build_request and create_and_deploy_repo, app.py:53-114, 150-170 *)

\* the caller resumes: the locals of the wait are gone, and the history of
\* the wait is closed; its result and its exit stay
WaitLeft ==
    /\ elapsed_time' = 0
    /\ w_polls' = 0
    /\ w_clock' = 0
    /\ w_first_completed' = "unseen"
    /\ w_completed_sha' = NoSha
    /\ w_late_polls' = 0
    /\ w_error' = FALSE
    /\ w_odd_seen' = FALSE
    /\ UNCHANGED <<deployment_successful, w_exit>>

\* app.py:154
EmptyOutput(code) == code = <<>>

\* app.py:158-169: return, or build the payload and notify
\* faulty variant: the check of github_details is missing
AfterPublishMutAlways(details) == "notify"

AfterPublish(details) == IF ~details.ok THEN "respond" ELSE "notify"

\* the generator raises: nothing in process_build_request or the handler
\* catches it, the framework answers 500
Crash ==
    /\ http_status' = 500
    /\ pc' = "idle"

\* create_and_deploy_repo returns `details` to app.py:157
BuildReturn(details) ==
    /\ github_details' = details
    /\ pc' = AfterPublish(details)
    /\ payload' = IF AfterPublish(details) = "notify"
                  THEN [round |-> 1, commit_sha |-> details.commit_sha]
                  ELSE payload
    /\ UNCHANGED <<http_status, i, delay, n_result, n_attempts, n_log>>

\* app.py:153-155 (generate_app_code, app.py:19-50)
BuildGenerate ==
    /\ pc = "build"
    /\ \E out \in Outcomes, text \in BuildTexts :
        IF out = "raise"
        THEN /\ Crash
             /\ gen_out' = "raise"
             /\ UNCHANGED generated_code
        ELSE /\ generated_code' = CleanGenerated(text)
             /\ gen_out' = IF CleanGenerated(text) = <<>> THEN "empty" ELSE "ok"
             /\ pc' = IF EmptyOutput(CleanGenerated(text)) THEN "respond" ELSE "create_repo"
             /\ UNCHANGED http_status
    /\ UNCHANGED <<MY_APP_SECRET, data, nreq, evars, github_details, nfile, rvars,
                   wvars, nvars, fetch_out, pub_out, pub_ops, resp_known, resp_sections,
                   stale_ops, last_submit, head_reads>>
    /\ UNCHANGED ovars

\* app.py:56-61; the host refuses a name that is taken
CreateRepo ==
    /\ pc = "create_repo"
    /\ pub_ops' = pub_ops + 1
    /\ \E out \in Outcomes :
        IF out = "ok" /\ ~repo.exists
        THEN /\ repo' = [NoRepo EXCEPT !.exists = TRUE]
             /\ pc' = "create_file"
             /\ UNCHANGED <<github_details, pub_out, http_status, nvars>>
        ELSE /\ BuildReturn(NoDetails)
             /\ pub_out' = "fail"
             /\ UNCHANGED repo
    /\ UNCHANGED <<MY_APP_SECRET, data, nreq, generated_code, nfile,
                   rvars, wvars, gen_out, fetch_out, resp_known, resp_sections,
                   stale_ops, last_submit, head_reads>>
    /\ UNCHANGED ovars

SeedContent(f) ==
    IF f = LICENSE THEN LICENSE_TEXT
    ELSE IF f = README THEN README_TEXT
    ELSE generated_code

\* the host writes `content` to `path` as a new commit
Commit(r, path, content) ==
    [r EXCEPT !.head = r.head + 1,
              !.files[path] = [present |-> TRUE, content |-> content,
                               sha |-> r.head + 1]]

\* app.py:84-87, one repo.create_file per step
CreateFile ==
    /\ pc = "create_file"
    /\ pub_ops' = pub_ops + 1
    /\ \E out \in Outcomes :
        IF out = "ok"
        THEN /\ repo' = Commit(repo, SeedFiles[nfile + 1], SeedContent(SeedFiles[nfile + 1]))
             /\ nfile' = nfile + 1
             /\ pc' = IF nfile + 1 = Len(SeedFiles) THEN "enable_pages" ELSE "create_file"
             /\ UNCHANGED <<github_details, pub_out, http_status, nvars>>
        ELSE /\ BuildReturn(NoDetails)
             /\ pub_out' = "fail"
             /\ UNCHANGED <<repo, nfile>>
    /\ UNCHANGED <<MY_APP_SECRET, data, nreq, generated_code,
                   rvars, wvars, gen_out, fetch_out, resp_known, resp_sections,
                   stale_ops, last_submit, head_reads>>
    /\ UNCHANGED ovars

\* app.py:97
PagesEnabled(status) == status = HTTP_CREATED

\* app.py:88-104
EnablePages ==
    /\ pc = "enable_pages"
    /\ pub_ops' = pub_ops + 1
    /\ \E r \in PostOutcomes :
        IF ~r.raised /\ PagesEnabled(r.status_code)
        THEN /\ repo' = [repo EXCEPT !.pages = TRUE]
             /\ pub_out' = "ok"
             /\ pc' = "w_warm"
             /\ UNCHANGED <<github_details, http_status, nvars>>
        ELSE /\ BuildReturn(NoDetails)
             /\ pub_out' = "fail"
             /\ UNCHANGED repo
    /\ UNCHANGED <<MY_APP_SECRET, data, nreq, generated_code, nfile,
                   rvars, wvars, gen_out, fetch_out, resp_known, resp_sections,
                   stale_ops, last_submit, head_reads>>
    /\ UNCHANGED ovars

\* app.py:104-107
BuildAfterWait ==
    /\ pc = "w_ret"
    /\ data.round = 1
    /\ IF ~deployment_successful
       THEN BuildReturn(NoDetails)
       ELSE /\ pc' = "read_head"
            /\ UNCHANGED <<github_details, http_status, nvars>>
    /\ WaitLeft
    /\ UNCHANGED <<MY_APP_SECRET, data, nreq, evars, generated_code, nfile,
                   rvars, gvars>>
    /\ UNCHANGED ovars

\* app.py:109-114
ReadHead ==
    /\ pc = "read_head"
    /\ head_reads' = head_reads + 1
    /\ \E out \in Outcomes :
        IF out = "ok"
        THEN BuildReturn([ok |-> TRUE, commit_sha |-> repo.head])
        ELSE BuildReturn(NoDetails)
    /\ UNCHANGED <<MY_APP_SECRET, data, nreq, evars, generated_code, nfile,
                   rvars, wvars, gen_out, fetch_out, pub_out, pub_ops, resp_known, resp_sections,
                   stale_ops, last_submit>>
    /\ UNCHANGED ovars

----------------------------------------------------------------------------
(* process_revise_request and update_repo_files, app.py:175-194, 241-310 *)

\* app.py:300
NoResponse(text) == text = <<>>

\* app.py:277
\* faulty variant: the check of new_commit_sha is missing
NoValidFilesMutNever(sha) == FALSE

NoValidFiles(sha) == sha = NoSha

\* app.py:272: the commit kept is the one of the update just made
\* faulty variant: the commit of the first update is kept
RecordCommitMutFirst(kept, made) == IF kept = NoSha THEN made ELSE kept

RecordCommit(kept, made) == made

\* app.py:302-309: return, or build the payload and notify
\* faulty variant: the check of commit_sha is missing
AfterUpdateMutAlways(sha) == "notify"

AfterUpdate(sha) == IF sha = NoSha THEN "respond" ELSE "notify"

\* app.py:249-262: the block is skipped
Skipped(file_raw) ==
    \/ IsBlank(file_raw)
    \/ IsMalformed(file_raw)
    \/ ~IsKnownName(FileNameOf(file_raw))

\* the response holds a block that names a known file on its first line
HasKnownFile(text) ==
    \E k \in 1..Len(Split(text, MARKER)) :
        LET file_raw == Split(text, MARKER)[k]
        IN  /\ ~IsBlank(file_raw)
            /\ Positions(file_raw, NL) # {}
            /\ FileNameOf(file_raw) \in {<<INDEX>>, <<README>>}

\* update_repo_files returns `sha` to app.py:301
ReviseReturn(sha) ==
    /\ commit_sha' = sha
    /\ pc' = AfterUpdate(sha)
    /\ payload' = IF AfterUpdate(sha) = "notify"
                  THEN [round |-> 2, commit_sha |-> sha]
                  ELSE payload
    /\ UNCHANGED <<http_status, i, delay, n_result, n_attempts, n_log>>

\* app.py:297-298 (get_existing_repo_details, app.py:175-194).  When Auth,
\* Github or get_user raises, repo_name is not bound yet and the handler at
\* app.py:193 raises in turn: that exception leaves the function.
ReviseFetch ==
    /\ pc = "revise"
    /\ \E out \in {"ok", "raise", "raise_user"} :
        IF out = "raise_user"
        THEN /\ Crash
             /\ fetch_out' = "crash"
             /\ UNCHANGED repo_details
        ELSE IF /\ out = "ok"
                /\ repo.exists
                /\ repo.files[INDEX].present
                /\ repo.files[README].present
        THEN /\ repo_details' = TRUE
             /\ fetch_out' = "ok"
             /\ pc' = "rev_gen"
             /\ UNCHANGED http_status
        ELSE /\ repo_details' = FALSE
             /\ fetch_out' = "fail"
             /\ pc' = "respond"
             /\ UNCHANGED http_status
    /\ UNCHANGED <<MY_APP_SECRET, data, nreq, evars, bvars, files_raw, original_file,
                   new_commit_sha, commit_sha, wvars, nvars, gen_out, pub_out,
                   pub_ops, resp_known, resp_sections,
                   stale_ops, last_submit, head_reads>>
    /\ UNCHANGED ovars

\* app.py:299-300 (generate_updated_code, app.py:197-239) and app.py:245-247
ReviseGenerate ==
    /\ pc = "rev_gen"
    /\ \E out \in Outcomes, cs \in ChunkSeqs :
        LET text == Concat(cs) IN
        IF out = "raise"
        THEN /\ Crash
             /\ gen_out' = "raise"
             /\ UNCHANGED <<files_raw, resp_known, resp_sections, stale_ops,
                            last_submit>>
        ELSE /\ gen_out' = IF text = <<>> THEN "empty" ELSE "ok"
             /\ resp_known' = HasKnownFile(text)
             /\ resp_sections' = IF \A k \in 1..Len(cs) : cs[k] \in Sections
                                 THEN cs ELSE <<>>
             /\ files_raw' = IF NoResponse(text) THEN <<>> ELSE FileBlocks(text)
             /\ pc' = IF NoResponse(text) THEN "respond" ELSE "rev_loop"
             /\ UNCHANGED http_status
    /\ UNCHANGED <<MY_APP_SECRET, data, nreq, evars, bvars, repo_details, original_file,
                   new_commit_sha, commit_sha, wvars, nvars, fetch_out, pub_out,
                   pub_ops, stale_ops, last_submit, head_reads>>
    /\ UNCHANGED ovars

\* app.py:248-257, 274-275
ReviseSkipBlock ==
    /\ pc = "rev_loop"
    /\ files_raw # <<>>
    /\ Skipped(Head(files_raw))
    /\ files_raw' = Tail(files_raw)
    /\ UNCHANGED <<hvars, evars, bvars, repo_details, original_file, new_commit_sha,
                   commit_sha, wvars, nvars, gvars>>
    /\ UNCHANGED ovars

\* app.py:262-264
ReviseGetContents ==
    /\ pc = "rev_loop"
    /\ files_raw # <<>>
    /\ ~Skipped(Head(files_raw))
    /\ \E out \in Outcomes :
        LET path == FileNameOf(Head(files_raw))[1]
        IN  IF out = "ok" /\ repo.files[path].present
            THEN /\ original_file' = [path |-> path, sha |-> repo.files[path].sha]
                 /\ pc' = "rev_update"
                 /\ UNCHANGED <<commit_sha, pub_out, http_status, nvars>>
            ELSE /\ ReviseReturn(NoSha)
                 /\ pub_out' = "fail"
                 /\ UNCHANGED original_file
    /\ UNCHANGED <<MY_APP_SECRET, data, nreq, evars, bvars, repo_details, files_raw,
                   new_commit_sha, wvars, gen_out, fetch_out, pub_ops, resp_known, resp_sections,
                   stale_ops, last_submit,
                   head_reads>>
    /\ UNCHANGED ovars

\* app.py:266-271: the host takes the update when the sha sent with it is
\* the sha the file has now
\* faulty variant: the host does not look at the sha
TokenCurrentMutAlways(r, file) == TRUE

\* faulty variant: the host wants the sha of the last commit of the branch
TokenCurrentMutBranchWide(r, file) == file.sha = r.head

TokenCurrent(r, file) == file.sha = r.files[file.path].sha

\* the sha sent is not the sha the file has now
Outdated(r, file) == file.sha # r.files[file.path].sha

\* app.py:266-273
ReviseUpdateFile ==
    /\ pc = "rev_update"
    /\ pub_ops' = pub_ops + 1
    /\ stale_ops' = IF Outdated(repo, original_file) THEN pub_ops + 1 ELSE stale_ops
    /\ \E out \in Outcomes :
        IF out = "ok" /\ TokenCurrent(repo, original_file)
        THEN /\ repo' = Commit(repo, original_file.path, ContentOf(Head(files_raw)))
             /\ new_commit_sha' = RecordCommit(new_commit_sha, repo.head + 1)
             /\ files_raw' = Tail(files_raw)
             /\ pc' = "rev_loop"
             /\ last_submit' = "accepted"
             /\ UNCHANGED <<commit_sha, pub_out, http_status, nvars>>
        ELSE /\ ReviseReturn(NoSha)
             /\ pub_out' = "fail"
             /\ last_submit' = IF out = "ok" THEN "refused" ELSE "raised"
             /\ UNCHANGED <<repo, new_commit_sha, files_raw>>
    /\ UNCHANGED <<MY_APP_SECRET, data, nreq, bvars, repo_details,
                   original_file, wvars, gen_out, fetch_out, resp_known, resp_sections,
                   head_reads>>
    /\ UNCHANGED ovars

\* app.py:277-281
ReviseLoopEnd ==
    /\ pc = "rev_loop"
    /\ files_raw = <<>>
    /\ IF NoValidFiles(new_commit_sha)
       THEN /\ ReviseReturn(NoSha)
            /\ pub_out' = "fail"
       ELSE /\ pc' = "w_warm"
            /\ pub_out' = "ok"
            /\ UNCHANGED <<commit_sha, http_status, nvars>>
    /\ UNCHANGED <<MY_APP_SECRET, data, nreq, evars, bvars, repo_details, files_raw,
                   original_file, new_commit_sha, wvars, gen_out, fetch_out, pub_ops,
                   resp_known, resp_sections,
                   stale_ops, last_submit, head_reads>>
    /\ UNCHANGED ovars

\* app.py:281-286, 301-309
ReviseAfterWait ==
    /\ pc = "w_ret"
    /\ data.round = 2
    /\ ReviseReturn(IF deployment_successful THEN new_commit_sha ELSE NoSha)
    /\ WaitLeft
    /\ UNCHANGED <<MY_APP_SECRET, data, nreq, evars, bvars, repo_details, files_raw,
                   original_file, new_commit_sha, gvars>>
    /\ UNCHANGED ovars

----------------------------------------------------------------------------
(* wait_for_github_pages_deployment, app.py:116-148 *)

\* app.py:125
\* faulty variant: the loop is entered once more when the budget is used up
LoopContinuesMutInclusive(elapsed) == elapsed <= timeout_seconds

LoopContinues(elapsed) == elapsed < timeout_seconds

\* app.py:128-138: what one poll result makes of the wait
\* faulty variant: the conclusion of a completed run is not looked at
PollVerdictMutAnyCompleted(run) ==
    IF run.status = "completed" THEN "success" ELSE "pending"

\* faulty variant: the conclusion is looked at before the status
PollVerdictMutConclusion(run) ==
    IF run.conclusion = "success" THEN "success"
    ELSE IF run.status = "completed" THEN "failed" ELSE "pending"

PollVerdict(run) ==
    IF run.status = "none" THEN "pending"
    ELSE IF run.status = "completed"
         THEN IF run.conclusion = "success" THEN "success" ELSE "failed"
         ELSE "pending"

\* app.py:119: the time slept when the warm-up is over
\* faulty variant: the warm-up sleep is missing
WarmupDoneMutNoSleep(clock) == clock

WarmupDone(clock) == clock + warmup_seconds

\* app.py:143-145: an exception of the poll ends the wait
\* faulty variant: the poll is tried again after the interval
PollErrorIsFatalMutRetry == FALSE

PollErrorIsFatal == TRUE

\* app.py:118-123
WaitWarmup ==
    /\ pc = "w_warm"
    /\ w_clock' = WarmupDone(w_clock)
    /\ elapsed_time' = 0
    /\ pc' = "w_loop"
    /\ UNCHANGED <<MY_APP_SECRET, data, http_status, nreq, evars, bvars, rvars,
                   deployment_successful, w_exit, w_polls, w_first_completed,
                   w_completed_sha, w_late_polls, w_error, w_odd_seen, nvars, gvars>>
    /\ UNCHANGED ovars

\* the wait returns `ok` by the return statement `exit`
WaitReturn(ok, exit) ==
    /\ deployment_successful' = ok
    /\ w_exit' = exit
    /\ pc' = "w_ret"

\* what repo.get_workflow_runs() can show (app.py:127-129): no run, or a
\* latest run that belongs to the head commit or to the commit before it.
\* The host deploys only once Pages is enabled, which is after the seed
\* commits (app.py:84-95): no run belongs to a commit before the last of them.
PollResults ==
    {NoRun} \cup
        IF repo.pages
        THEN RunValues({h \in {repo.head - 1, repo.head} : h >= Len(SeedFiles)})
        ELSE {}

\* app.py:125-145, one iteration of the loop
WaitPoll ==
    /\ pc = "w_loop"
    /\ LoopContinues(elapsed_time)
    /\ w_polls' = w_polls + 1
    /\ w_late_polls' = IF w_first_completed # "unseen" THEN w_late_polls + 1
                       ELSE w_late_polls
    /\ \E out \in Outcomes, run \in PollResults :
        IF out = "raise"
        THEN /\ w_error' = TRUE
             /\ UNCHANGED <<w_first_completed, w_completed_sha, w_odd_seen>>
             /\ IF PollErrorIsFatal
                THEN /\ WaitReturn(FALSE, "error")
                     /\ UNCHANGED <<elapsed_time, w_clock>>
                ELSE /\ elapsed_time' = elapsed_time + poll_interval_seconds
                     /\ w_clock' = w_clock + poll_interval_seconds
                     /\ UNCHANGED <<pc, deployment_successful, w_exit>>
        ELSE /\ w_first_completed' =
                    IF w_first_completed = "unseen" /\ run.status = "completed"
                    THEN run.conclusion ELSE w_first_completed
             /\ w_completed_sha' =
                    IF w_first_completed = "unseen" /\ run.status = "completed"
                    THEN run.sha ELSE w_completed_sha
             /\ w_odd_seen' =
                    (w_odd_seen \/ (run.status = "in_progress" /\ run.conclusion = "success"))
             /\ UNCHANGED w_error
             /\ IF PollVerdict(run) = "success"
                THEN /\ WaitReturn(TRUE, "success")
                     /\ UNCHANGED <<elapsed_time, w_clock>>
                ELSE IF PollVerdict(run) = "failed"
                THEN /\ WaitReturn(FALSE, "failed")
                     /\ UNCHANGED <<elapsed_time, w_clock>>
                ELSE /\ elapsed_time' = elapsed_time + poll_interval_seconds
                     /\ w_clock' = w_clock + poll_interval_seconds
                     /\ UNCHANGED <<pc, deployment_successful, w_exit>>
    /\ UNCHANGED <<MY_APP_SECRET, data, http_status, nreq, evars, bvars, rvars,
                   nvars, gvars>>
    /\ UNCHANGED ovars

\* app.py:125, 147-148
WaitTimeout ==
    /\ pc = "w_loop"
    /\ ~LoopContinues(elapsed_time)
    /\ WaitReturn(FALSE, "timeout")
    /\ UNCHANGED <<MY_APP_SECRET, data, http_status, nreq, evars, bvars, rvars,
                   elapsed_time, w_polls, w_clock, w_first_completed,
                   w_completed_sha, w_late_polls, w_error, w_odd_seen, nvars, gvars>>
    /\ UNCHANGED ovars

----------------------------------------------------------------------------
(* notify_evaluator, app.py:312-329 *)

\* app.py:319
\* faulty variant: 201 is taken for the success status
PostSucceededMutCreated(status) == status = HTTP_CREATED

PostSucceeded(status) == status = HTTP_OK

\* app.py:327
\* faulty variant: the delay grows by one
NextDelayMutLinear(d) == d + 1

NextDelay(d) == d * 2

\* app.py:315
MoreAttempts(n) == n < max_retries

Posted(r) == [op |-> "post", n |-> IF ~r.raised /\ r.status_code = 200 THEN 1 ELSE 0]
Slept(d) == [op |-> "sleep", n |-> d]

\* app.py:315-327, one iteration of the loop
NotifyAttempt ==
    /\ pc = "notify"
    /\ MoreAttempts(i)
    /\ n_attempts' = n_attempts + 1
    /\ \E r \in PostOutcomes :
        IF ~r.raised /\ PostSucceeded(r.status_code)
        THEN /\ n_result' = "true"
             /\ n_log' = Append(n_log, Posted(r))
             /\ pc' = "respond"
             /\ UNCHANGED <<i, delay>>
        ELSE /\ n_log' = n_log \o <<Posted(r), Slept(delay)>>
             /\ delay' = NextDelay(delay)
             /\ i' = i + 1
             /\ UNCHANGED <<pc, n_result>>
    /\ UNCHANGED <<MY_APP_SECRET, data, http_status, nreq, evars, bvars, rvars,
                   wvars, payload, gvars>>
    /\ UNCHANGED ovars

\* app.py:328-329
NotifyExhausted ==
    /\ pc = "notify"
    /\ ~MoreAttempts(i)
    /\ n_result' = "false"
    /\ pc' = "respond"
    /\ UNCHANGED <<MY_APP_SECRET, data, http_status, nreq, evars, bvars, rvars,
                   wvars, i, delay, payload, n_attempts, n_log, gvars>>
    /\ UNCHANGED ovars

----------------------------------------------------------------------------
(* The program *)

Next ==
    \/ HandleReject
    \/ HandleAccept
    \/ Respond
    \/ BuildGenerate
    \/ CreateRepo
    \/ CreateFile
    \/ EnablePages
    \/ BuildAfterWait
    \/ ReadHead
    \/ ReviseFetch
    \/ ReviseGenerate
    \/ ReviseSkipBlock
    \/ ReviseGetContents
    \/ ReviseUpdateFile
    \/ ReviseLoopEnd
    \/ ReviseAfterWait
    \/ WaitWarmup
    \/ WaitPoll
    \/ WaitTimeout
    \/ NotifyAttempt
    \/ NotifyExhausted

Spec == Init /\ [][Next]_vars

----------------------------------------------------------------------------
(* Two runs of update_repo_files, app.py:241-289, on one repository: the
   server takes a second Revise request while the first is being served.
   The first run is the worker above; the second run has its own locals. *)

BODY_OTHER == "y"

\* sections of the response the second run works on
OtherIndexSection == <<MARKER, INDEX, SP, DASH, NL, BODY_OTHER>>
OtherReadmeSection == <<MARKER, README, SP, DASH, NL, BODY_OTHER>>

\* the responses of a run: one of the two sections, or both in either order
RaceResponses(index, readme) ==
    {<<index>>, <<readme>>, <<index, readme>>, <<readme, index>>}

\* the repository as a Round-1 request leaves it (app.py:84-95)
DeployedRepo ==
    [exists |-> TRUE, pages |-> TRUE, head |-> Len(SeedFiles),
     files |-> [f \in RepoFiles |->
                   [present |-> TRUE,
                    content |-> IF f = LICENSE THEN LICENSE_TEXT
                                ELSE IF f = README THEN README_TEXT
                                ELSE <<BODY>>,
                    sha |-> Least(Positions(SeedFiles, f))]]]

\* both runs are at app.py:247, each with the response it was given
InitRace ==
    /\ MY_APP_SECRET = "s1"
    /\ data = [body |-> TRUE, secret |-> "s1", round |-> 2]
    /\ http_status = 0
    /\ nreq = 2
    /\ repo = DeployedRepo
    /\ generated_code = <<>>
    /\ github_details = NoDetails
    /\ nfile = 0
    /\ repo_details = TRUE
    /\ \E cs \in RaceResponses(IndexSection, ReadmeSection) :
        /\ files_raw = FileBlocks(Concat(cs))
        /\ resp_sections = cs
    /\ \E cs \in RaceResponses(OtherIndexSection, OtherReadmeSection) :
        o_files_raw = FileBlocks(Concat(cs))
    /\ pc = "rev_loop"
    /\ o_pc = "rev_loop"
    /\ original_file = NoOriginal
    /\ new_commit_sha = NoSha
    /\ commit_sha = NoSha
    /\ elapsed_time = 0
    /\ deployment_successful = FALSE
    /\ w_exit = "none"
    /\ w_polls = 0
    /\ w_clock = 0
    /\ w_first_completed = "unseen"
    /\ w_completed_sha = NoSha
    /\ w_late_polls = 0
    /\ w_error = FALSE
    /\ w_odd_seen = FALSE
    /\ i = 0
    /\ delay = initial_delay
    /\ payload = NoPayload
    /\ n_result = "none"
    /\ n_attempts = 0
    /\ n_log = <<>>
    /\ gen_out = "ok"
    /\ fetch_out = "ok"
    /\ pub_out = "none"
    /\ pub_ops = 0
    /\ resp_known = TRUE
    /\ stale_ops = 0
    /\ last_submit = "none"
    /\ head_reads = 0
    /\ o_original_file = NoOriginal
    /\ o_new_commit_sha = NoSha
    /\ o_stale = FALSE

\* app.py:248-257, 274-275
OtherSkipBlock ==
    /\ o_pc = "rev_loop"
    /\ o_files_raw # <<>>
    /\ Skipped(Head(o_files_raw))
    /\ o_files_raw' = Tail(o_files_raw)
    /\ UNCHANGED <<hvars, evars, bvars, rvars, wvars, nvars, gvars, o_pc,
                   o_original_file, o_new_commit_sha, o_stale>>

\* app.py:262-264
OtherGetContents ==
    /\ o_pc = "rev_loop"
    /\ o_files_raw # <<>>
    /\ ~Skipped(Head(o_files_raw))
    /\ \E out \in Outcomes :
        LET path == FileNameOf(Head(o_files_raw))[1]
        IN  IF out = "ok" /\ repo.files[path].present
            THEN /\ o_original_file' = [path |-> path, sha |-> repo.files[path].sha]
                 /\ o_pc' = "rev_update"
            ELSE /\ o_pc' = "failed"
                 /\ UNCHANGED o_original_file
    /\ UNCHANGED <<hvars, evars, bvars, rvars, wvars, nvars, gvars, o_files_raw,
                   o_new_commit_sha, o_stale>>

\* app.py:266-273
OtherUpdateFile ==
    /\ o_pc = "rev_update"
    /\ o_stale' = (o_stale \/ Outdated(repo, o_original_file))
    /\ \E out \in Outcomes :
        IF out = "ok" /\ TokenCurrent(repo, o_original_file)
        THEN /\ repo' = Commit(repo, o_original_file.path, ContentOf(Head(o_files_raw)))
             /\ o_new_commit_sha' = RecordCommit(o_new_commit_sha, repo.head + 1)
             /\ o_files_raw' = Tail(o_files_raw)
             /\ o_pc' = "rev_loop"
        ELSE /\ o_pc' = "failed"
             /\ UNCHANGED <<repo, o_new_commit_sha, o_files_raw>>
    /\ UNCHANGED <<hvars, bvars, rvars, wvars, nvars, gvars, o_original_file>>

\* app.py:277-281
OtherLoopEnd ==
    /\ o_pc = "rev_loop"
    /\ o_files_raw = <<>>
    /\ o_pc' = IF NoValidFiles(o_new_commit_sha) THEN "failed" ELSE "wait"
    /\ UNCHANGED <<hvars, evars, bvars, rvars, wvars, nvars, gvars, o_files_raw,
                   o_original_file, o_new_commit_sha, o_stale>>

\* app.py:281-286, 301-303: the deployment wait of the second run, by the
\* value it returns
OtherWait ==
    /\ o_pc = "wait"
    /\ \E ok \in BOOLEAN : o_pc' = IF ok THEN "notify" ELSE "failed"
    /\ UNCHANGED <<hvars, evars, bvars, rvars, wvars, nvars, gvars, o_files_raw,
                   o_original_file, o_new_commit_sha, o_stale>>

\* app.py:304-310: the notification of the second run
OtherNotify ==
    /\ o_pc = "notify"
    /\ o_pc' = "notified"
    /\ UNCHANGED <<hvars, evars, bvars, rvars, wvars, nvars, gvars, o_files_raw,
                   o_original_file, o_new_commit_sha, o_stale>>

NextRace ==
    \/ ReviseSkipBlock
    \/ ReviseGetContents
    \/ ReviseUpdateFile
    \/ ReviseLoopEnd
    \/ ReviseAfterWait
    \/ WaitWarmup
    \/ WaitPoll
    \/ WaitTimeout
    \/ NotifyAttempt
    \/ NotifyExhausted
    \/ Respond
    \/ OtherSkipBlock
    \/ OtherGetContents
    \/ OtherUpdateFile
    \/ OtherLoopEnd
    \/ OtherWait
    \/ OtherNotify

SpecRace == InitRace /\ [][NextRace]_vars

----------------------------------------------------------------------------
(* Properties *)

\* the handler has answered the request held in data
Answered == pc = "idle" /\ nreq > 0

\* the deployment wait was entered by the run in progress
WaitEntered == pc \in {"w_warm", "w_loop", "w_ret"} \/ w_exit # "none"

\* a notification post was made, or is about to be made, by the run in progress
NotifyEntered == pc = "notify" \/ n_attempts > 0

\* the posts of n_log, and its sleeps
PostsOf(log) == SelectSeq(log, LAMBDA e : e.op = "post")
SleepsOf(log) == SelectSeq(log, LAMBDA e : e.op = "sleep")

\* C1: in both workflows the notification is posted only when generation
\* gave non-empty output, the publish or update stage succeeded and the
\* deployment wait returned success; once a stage has failed, no later
\* stage is entered and nothing is posted.
NotifyOnlyAfterEveryStage ==
    /\ NotifyEntered =>
        /\ gen_out = "ok"
        /\ pub_out = "ok"
        /\ w_exit = "success"
        /\ deployment_successful
        /\ data.round = 2 => fetch_out = "ok"
    /\ fetch_out \in {"fail", "crash"} =>
        gen_out = "none" /\ pub_ops = 0 /\ ~WaitEntered /\ ~NotifyEntered
    /\ gen_out \in {"empty", "raise"} =>
        pub_ops = 0 /\ ~WaitEntered /\ ~NotifyEntered
    /\ pub_out = "fail" =>
        ~WaitEntered /\ head_reads = 0 /\ ~NotifyEntered
    /\ w_exit \in {"failed", "error", "timeout"} =>
        head_reads = 0 /\ ~NotifyEntered

\* a Revise run that follows a Build run has posted its notification
NotifiedInBothRounds ==
    /\ nreq = 2
    /\ data.round = 2
    /\ n_attempts > 0
    /\ repo.pages

\* C2: the deployment wait returns True exactly when the first completed
\* run it saw concluded in success; a completed run ends the wait at once,
\* so no poll is ever made after one was seen.
WaitSucceedsIffFirstCompletedSucceeded ==
    /\ pc = "w_ret" => (deployment_successful <=> w_first_completed = "success")
    /\ pc = "w_ret" /\ w_first_completed = "failure" =>
        w_exit = "failed" /\ ~deployment_successful
    /\ w_first_completed # "unseen" => pc = "w_ret"
    /\ w_late_polls = 0

\* the wait has returned False on a completed run that failed, after
\* polls that showed no completed run
WaitFailedOnCompletedRun ==
    /\ pc = "w_ret"
    /\ w_first_completed = "failure"
    /\ w_polls = 3

\* C3: when no completed run is seen, the deployment wait ends by the
\* timeout, after the 300 time-unit budget, with failure, whatever the
\* runs that were not completed carried; a missing run and a run that is
\* not completed only make it poll again.
WaitTimesOutWithoutCompletedRun ==
    /\ pc = "w_ret" /\ w_first_completed = "unseen" => ~deployment_successful
    /\ pc = "w_ret" /\ w_first_completed = "unseen" /\ ~w_error =>
        /\ w_exit = "timeout"
        /\ elapsed_time = 300
        /\ w_polls = 30
    /\ pc = "w_loop" =>
        /\ w_first_completed = "unseen"
        /\ elapsed_time = 10 * w_polls
        /\ w_exit = "none"

\* the wait has timed out although it saw a run that was not completed and
\* carried a success conclusion
WaitTimedOutDespiteOddRun ==
    /\ pc = "w_ret"
    /\ w_exit = "timeout"
    /\ w_odd_seen

\* the log of a notification that failed five times, up to its last post
FiveFailedPosts ==
    << [op |-> "post", n |-> 0], [op |-> "sleep", n |-> 1],
       [op |-> "post", n |-> 0], [op |-> "sleep", n |-> 2],
       [op |-> "post", n |-> 0], [op |-> "sleep", n |-> 4],
       [op |-> "post", n |-> 0], [op |-> "sleep", n |-> 8],
       [op |-> "post", n |-> 0] >>

\* C4: when no attempt is answered with 200, notify_evaluator makes
\* exactly 5 posts, sleeps 1, 2, 4 and 8 between them, and returns failure;
\* while it runs, its posts and the delays between them follow that pattern.
NotifyFailsAfterFivePosts ==
    /\ n_result = "false" =>
        /\ n_attempts = 5
        /\ Len(PostsOf(n_log)) = 5
        /\ SubSeq(n_log, 1, 9) = FiveFailedPosts
    /\ \A k \in 1..Len(n_log) :
        k <= 9 /\ n_log[k].n # 1 => n_log[k] = FiveFailedPosts[k]

\* notify_evaluator has returned failure
NotifyExhaustedReached ==
    /\ n_result = "false"
    /\ pc = "respond"

\* C5: when the first 200 comes on attempt k, notify_evaluator has made
\* exactly k posts, returns success, and neither posts nor sleeps after it.
NotifyStopsAtFirstOk ==
    /\ n_result = "true" =>
        /\ n_log # <<>>
        /\ n_log[Len(n_log)] = [op |-> "post", n |-> 1]
        /\ n_attempts = Len(PostsOf(n_log))
        /\ n_attempts = Len(SleepsOf(n_log)) + 1
        /\ n_attempts \in 1..5
        /\ \A k \in 1..(Len(n_log) - 1) : n_log[k] # [op |-> "post", n |-> 1]
    /\ (\E k \in 1..Len(n_log) : n_log[k] = [op |-> "post", n |-> 1]) =>
        n_result = "true" /\ pc \in {"respond", "idle"}

\* the third post was the first to be answered with 200
NotifiedOnThirdAttempt ==
    /\ n_result = "true"
    /\ n_attempts = 3

\* C6: no backoff delay follows the final attempt: when notify_evaluator
\* returns failure, the last thing it did was a post, not a sleep.
NoSleepAfterFinalAttempt ==
    n_result = "false" => n_log[Len(n_log)].op = "post"

\* the request held in data carried the configured secret
SecretMatched == data.body /\ data.secret = MY_APP_SECRET

\* C7: every request that carries the correct secret is answered 200,
\* whatever became of its workflow.
AcceptedRequestAnswered200 ==
    Answered /\ SecretMatched => http_status = 200

\* C8: the acknowledgment does not wait for the workflow: while the
\* deployment wait or the notification runs, the answer was already sent.
AnsweredBeforeWaitAndNotify ==
    pc \in {"w_warm", "w_loop", "w_ret", "notify"} => http_status = 200

\* C9: a request without a body, or whose secret differs from the
\* configured one, is answered 403 and nothing of a workflow runs for it: no
\* generation, no repository read or write, no deployment poll, no post.
RejectedRequestRunsNothing ==
    nreq > 0 /\ ~SecretMatched =>
        /\ pc = "idle"
        /\ http_status = 403
        /\ gen_out = "none"
        /\ fetch_out = "none"
        /\ pub_out = "none"
        /\ pub_ops = 0
        /\ original_file = NoOriginal
        /\ ~WaitEntered
        /\ ~NotifyEntered

\* a request with a wrong secret was rejected while the repository of an
\* earlier Build exists
RejectedWithRepoPresent ==
    /\ nreq = 2
    /\ data.body
    /\ data.round = 2
    /\ data.secret # MY_APP_SECRET
    /\ repo.pages
    /\ http_status = 403

\* C10: a Revise response without a recognized file is fatal: no file is
\* read or updated for it, the deployment wait is not entered and nothing
\* is posted.
NoValidFilesIsFatal ==
    data.round = 2 /\ gen_out = "ok" /\ ~resp_known =>
        /\ pub_ops = 0
        /\ original_file = NoOriginal
        /\ new_commit_sha = NoSha
        /\ ~WaitEntered
        /\ ~NotifyEntered
        /\ pc \in {"rev_loop", "respond", "idle"}
        /\ pc = "idle" => pub_out = "fail" /\ http_status = 200

\* a Revise run has ended on a response that held text but no recognized
\* file, with the repository of an earlier Build in place
RevisedWithoutValidFile ==
    /\ data.round = 2
    /\ gen_out = "ok"
    /\ ~resp_known
    /\ pub_out = "fail"
    /\ repo.pages
    /\ Answered

\* C11: in a Revise run that notifies, the commit_sha of the round-2
\* payload is the commit that the last file update of the run returned: it
\* is the head of the repository, and the version of the file written last.
PayloadCarriesLastUpdateCommit ==
    data.round = 2 /\ NotifyEntered =>
        /\ payload.round = 2
        /\ payload.commit_sha # NoSha
        /\ payload.commit_sha = repo.head
        /\ payload.commit_sha = commit_sha
        /\ \E f \in KnownFiles : repo.files[f].sha = payload.commit_sha
        /\ \A f \in KnownFiles : repo.files[f].sha <= payload.commit_sha

\* a Revise run has notified after it updated README.md and then index.html
NotifiedAfterTwoUpdates ==
    /\ data.round = 2
    /\ n_attempts > 0
    /\ repo.files[README].sha = repo.head - 1
    /\ repo.files[INDEX].sha = repo.head
    /\ payload.commit_sha = repo.head

\* C20: when an update fails in a Revise run that has already updated a
\* file, the run ends without the deployment wait and without a
\* notification, and the update made before stays in the repository.
FailedUpdateAbortsAndKeepsEarlier ==
    data.round = 2 /\ pub_out = "fail" /\ new_commit_sha # NoSha =>
        /\ ~WaitEntered
        /\ ~NotifyEntered
        /\ commit_sha = NoSha
        /\ pc \in {"respond", "idle"}
        /\ repo.head = new_commit_sha
        /\ \E f \in KnownFiles :
            /\ repo.files[f].present
            /\ repo.files[f].sha = new_commit_sha

\* a Revise run was answered after its first update went through and its
\* second one failed
AbortedAfterFirstUpdate ==
    /\ Answered
    /\ data.round = 2
    /\ pub_out = "fail"
    /\ pub_ops = 2
    /\ new_commit_sha # NoSha
    /\ http_status = 200

\* C14: when the deployment wait returns success, the completed run it
\* saw belongs to the commit the workflow pushed last, the head of the
\* repository.
SuccessIsForPushedCommit ==
    pc = "w_ret" /\ deployment_successful => w_completed_sha = repo.head

\* C15: the deployment wait polls only after the 5 time-unit warm-up, it
\* returns success only after the warm-up and at least one poll, and the
\* warm-up is no part of the 300 time-unit budget: elapsed_time counts the
\* poll intervals alone.
WarmupPrecedesPollsAndBudget ==
    /\ w_polls > 0 => w_clock >= 5
    /\ pc = "w_ret" /\ deployment_successful => w_polls >= 1 /\ w_clock >= 5
    /\ pc = "w_warm" => w_polls = 0 /\ w_clock = 0
    /\ pc \in {"w_loop", "w_ret"} => w_clock = 5 + elapsed_time
    /\ pc = "w_ret" /\ w_exit = "timeout" => w_clock = 305

\* the wait has returned success on its first poll, 5 time-units after
\* it was entered
SucceededRightAfterWarmup ==
    /\ pc = "w_ret"
    /\ deployment_successful
    /\ w_polls = 1
    /\ w_clock = 5

\* C16: a poll that raises ends the deployment wait with failure at once:
\* no poll follows it, whatever is left of the budget.
PollErrorEndsWait ==
    w_error =>
        /\ pc = "w_ret"
        /\ w_exit = "error"
        /\ ~deployment_successful
        /\ elapsed_time = 10 * (w_polls - 1)

\* the second poll raised, with 290 time-units of the budget left
SecondPollRaised ==
    /\ w_error
    /\ w_polls = 2
    /\ elapsed_time = 10

\* C17: the deployment wait ends: it makes at most 30 polls, the poll
\* number k at elapsed (k - 1) * 10, with a sleep of 10 after each poll that
\* ends nothing; at elapsed 300 it returns failure; and as long as it has
\* not returned, one of its steps can be taken.
WaitIsBoundedAndEnds ==
    /\ w_polls <= 30
    /\ elapsed_time <= 300
    /\ pc = "w_loop" => elapsed_time = 10 * w_polls /\ w_clock = 5 + 10 * w_polls
    /\ pc = "w_ret" => w_polls \in 1..30 /\ elapsed_time \in {10 * w_polls, 10 * (w_polls - 1)}
    /\ pc = "w_ret" /\ w_exit = "timeout" =>
        w_polls = 30 /\ elapsed_time = 300 /\ ~deployment_successful
    /\ pc = "w_ret" => w_exit \in {"success", "failed", "error", "timeout"}
    /\ pc = "w_ret" => (deployment_successful <=> w_exit = "success")
    /\ pc \in {"w_warm", "w_loop"} => ENABLED (WaitWarmup \/ WaitPoll \/ WaitTimeout)

\* the wait has returned by the timeout
WaitTimedOut ==
    /\ pc = "w_ret"
    /\ w_exit = "timeout"
    /\ w_polls = 30

\* the sections the response was made of
SectionSet == {resp_sections[k] : k \in 1..Len(resp_sections)}

\* the files the update_file calls of this run committed, when every one of
\* them was accepted
UpdatedByRun == {f \in RepoFiles : repo.files[f].sha > repo.head - pub_ops}

SectionOf(f) == IF f = INDEX THEN IndexSection ELSE ReadmeSection

\* the body a section in the requested form carries for the file
BodyOf(f) == IF f = INDEX THEN <<BODY>> ELSE <<BODY, BODY>>

\* C12: a response made of a section for one known file and a section with
\* an unrecognized filename, in either order, updates exactly the known file
\* with its body, and the unknown section does not fail the run: the run
\* fails in update_repo_files only at a host call for the known file.
UnknownSectionIsDropped ==
    \A f \in KnownFiles :
        data.round = 2 /\ SectionSet = {SectionOf(f), StraySection} =>
            /\ pub_out = "ok" =>
                /\ UpdatedByRun = {f}
                /\ repo.files[f].content = BodyOf(f)
                /\ new_commit_sha = repo.head
            /\ pub_out = "fail" =>
                /\ files_raw # <<>>
                /\ FileNameOf(Head(files_raw)) = <<f>>
            /\ pc = "rev_update" => original_file.path = f

\* the unrecognized section came first, README.md was updated and the
\* notification was reached
StrayFirstThenReadmeNotified ==
    /\ data.round = 2
    /\ resp_sections = <<StraySection, ReadmeSection>>
    /\ pub_out = "ok"
    /\ UpdatedByRun = {README}
    /\ NotifyEntered

\* C13: a response made of the sections of index.html and README.md in the
\* requested form updates exactly these two files, each with the body of
\* its own section, whichever of the two sections comes first.
BothSectionsParsedInAnyOrder ==
    data.round = 2 /\ SectionSet = {IndexSection, ReadmeSection} /\ pub_out = "ok" =>
        /\ UpdatedByRun = KnownFiles
        /\ \A f \in KnownFiles : repo.files[f].content = BodyOf(f)
        /\ repo.files[LICENSE].content = LICENSE_TEXT

\* the section of README.md came first and both files were updated
ReadmeFirstBothUpdated ==
    /\ data.round = 2
    /\ resp_sections = <<ReadmeSection, IndexSection>>
    /\ pub_out = "ok"
    /\ repo.files[README].sha = repo.head - 1
    /\ repo.files[INDEX].sha = repo.head
    /\ \A f \in KnownFiles : repo.files[f].content = BodyOf(f)

\* the second run has reached its notification
OtherNotifyEntered == o_pc \in {"notify", "notified"}

\* C18: with two runs of update_repo_files on one repository, an
\* update_file call that carries a version token no longer current is not
\* taken by the host and ends its run: no update_file call follows it, the
\* run does not enter the deployment wait and does not notify.
StaleUpdateIsHardFailure ==
    /\ stale_ops > 0 =>
        /\ last_submit \in {"refused", "raised"}
        /\ pub_ops = stale_ops
        /\ pub_out = "fail"
        /\ pc \in {"respond", "idle"}
        /\ ~WaitEntered
        /\ ~NotifyEntered
        /\ commit_sha = NoSha
        /\ repo.files[original_file.path].sha > original_file.sha
    /\ o_stale => o_pc = "failed" /\ ~OtherNotifyEntered

\* the second update_file call of the first run was refused for its token,
\* after its first one was taken, and the request was answered
SecondUpdateRefused ==
    /\ stale_ops = 2
    /\ last_submit = "refused"
    /\ new_commit_sha # NoSha
    /\ pc = "idle"

\* C19: nothing keeps two runs from a mixed result: each run holds, when
\* it calls update_file, the token it read for that very file; a token
\* that is still the one of its file is good whatever was committed to the
\* other file since; and the host refuses an update only for a token its own
\* file has outgrown.
MixedResultIsNotPrevented ==
    /\ pc = "rev_update" =>
        /\ <<original_file.path>> = FileNameOf(Head(files_raw))
        /\ ~Outdated(repo, original_file) => TokenCurrent(repo, original_file)
    /\ o_pc = "rev_update" =>
        /\ <<o_original_file.path>> = FileNameOf(Head(o_files_raw))
        /\ ~Outdated(repo, o_original_file) => TokenCurrent(repo, o_original_file)
    /\ last_submit = "refused" => stale_ops = pub_ops

\* both runs updated both files and reached their notification; the
\* repository holds index.html of the second run and README.md of the first
MixedResultBothNotified ==
    /\ NotifyEntered
    /\ OtherNotifyEntered
    /\ repo.head = Len(SeedFiles) + 4
    /\ stale_ops = 0
    /\ ~o_stale
    /\ repo.files[INDEX].content = <<BODY_OTHER>>
    /\ repo.files[README].content = <<BODY, BODY>>

====
